---- MODULE Spec2Model ----
(***************************************************************************)
(* A model of pip/req/req_set.py: the Requirements ordered mapping, and    *)
(* RequirementSet.add_requirement, get_requirement, _to_install, install.  *)
(*                                                                         *)
(* An InstallRequirement object is a record; objects have identity, which  *)
(* is the number of the add_requirement call that was handed the object.   *)
(* Python's None is NoReq (an object), NoneName (a name), NoLink (a link). *)
(***************************************************************************)
EXTENDS Integers, Sequences, FiniteSets, TLC

\* ------------------------------------------------------------------ bounds

\* The number of add_requirement calls made: in the runs that only admit
\* requirements, before _to_install is called (on graphs with skipped
\* entities, and on graphs of real requirements, where a cycle of three
\* takes four calls), and before install is called.
MaxAdmitCalls == 3
MaxGraphCalls == 3
MaxCycleCalls == 4
MaxInstallCalls == 3

\* ----------------------------------------------------- Python values used

NoReq == 0
NoneName == "<None>"
NoLink == [present |-> FALSE, path |-> "", is_wheel |-> FALSE, supported |-> FALSE]

\* str.lower() on the project names the model draws from.
Lower(s) ==
    CASE s = "Pkg" -> "pkg"
      [] s = "PKG" -> "pkg"
      [] s = "Dep" -> "dep"
      [] s = "DEP" -> "dep"
      [] OTHER -> s

\* Python's ordering of the extras' names (str.__lt__).
StrLess(x, y) ==
    \/ x = "a" /\ y \in {"b", "c"}
    \/ x = "b" /\ y = "c"

Range(s) == {s[i] : i \in DOMAIN s}

\* sorted(S) of a set of strings: selection of the least element, repeatedly.
RECURSIVE sorted(_)
sorted(S) ==
    IF S = {} THEN <<>>
    ELSE LET m == CHOOSE x \in S : \A y \in S \ {x} : StrLess(x, y)
         IN <<m>> \o sorted(S \ {m})

\* An extras value is a Python set or a Python tuple.  Both are held as a
\* sequence (a set as the sequence of its elements in sorted order, which
\* is one value per set) tagged with the type.
PySet(S) == [kind |-> "set", elems |-> sorted(S)]
PyTuple(q) == [kind |-> "tuple", elems |-> q]

\* set(x) of a set or a tuple.
set(x) == Range(x.elems)

\* x == y between sets and tuples: values of different types are unequal,
\* sets are equal when they hold the same elements, tuples when they hold
\* the same elements in the same order.
PyEq(x, y) == x.kind = y.kind /\ x.elems = y.elems

\* The fields of an InstallRequirement this file reads or writes.
InstallRequirement(name, specifier, extras, constraint, link, markers_match, satisfied_by, conflicts_with) ==
    [name |-> name, specifier |-> specifier, extras |-> PySet(extras),
     constraint |-> constraint, link |-> link, markers_match |-> markers_match,
     satisfied_by |-> satisfied_by, conflicts_with |-> conflicts_with,
     is_direct |-> FALSE, install_succeeded |-> FALSE,
     use_user_site |-> "unset", target_dir |-> "unset", pycompile |-> "unset"]

\* install_req.match_markers(extras_requested): the outcome is the caller's.
match_markers(install_req) == install_req.markers_match

\* RequirementSet.__init__'s defaults of the settings copied onto each entity.
use_user_site == "False"
target_dir == "None"
pycompile == "True"

VARIABLES
    objs,                  \* the live InstallRequirement objects, by identity
    nreq,                  \* the number of add_requirement calls so far
    requirements,          \* Requirements: [keys: the _keys list, dict: _dict]
    requirement_aliases,   \* alias (lower-cased name) -> real name
    unnamed_requirements,  \* list of objects
    reqs_to_cleanup,       \* list of objects
    dependencies,          \* _dependencies: object -> list of objects
    scanned,               \* how often add_requirement has returned each object
    successfully_installed,\* list of objects
    last,                  \* the call in progress or just ended, and its outcome
    pc,                    \* where the caller or the running method is
    order,                 \* _to_install: order
    ordered_reqs,          \* _to_install: ordered_reqs
    values,                \* _to_install: the list requirements.values()
    vi,                    \* _to_install: position of the for loop over values
    stack,                 \* the active schedule() calls: [req, i] frames
    nsched,                \* the number of schedule() calls made
    visits,                \* the objects in the order ordered_reqs took them in
    to_install,            \* install: to_install
    idx,                   \* install: position of the for loop over to_install
    log                    \* the calls made on entities and uninstalled path sets

vars == <<objs, nreq, requirements, requirement_aliases, unnamed_requirements,
          reqs_to_cleanup, dependencies, scanned, successfully_installed, last,
          pc, order, ordered_reqs, values, vi, stack, nsched, visits,
          to_install, idx, log>>

buildVars == <<objs, nreq, requirements, requirement_aliases,
               unnamed_requirements, reqs_to_cleanup, dependencies, scanned>>
schedVars == <<order, ordered_reqs, values, vi, stack, nsched, visits>>
instVars == <<to_install, idx, log, successfully_installed>>

\* ------------------------------------------------------------ Requirements

\* Requirements.__init__
EmptyRequirements == [keys |-> <<>>, dict |-> <<>>]

\* Requirements.__contains__
Contains(R, item) == item \in Range(R.keys)

\* Requirements.__setitem__
SetItem(R, key, value) ==
    [keys |-> IF key \notin Range(R.keys) THEN Append(R.keys, key) ELSE R.keys,
     dict |-> (key :> value) @@ R.dict]

\* Requirements.__getitem__
GetItem(R, key) == R.dict[key]

\* Requirements.values
Values(R) == [i \in DOMAIN R.keys |-> R.dict[R.keys[i]]]

\* ---------------------------------------------------------- RequirementSet

\* A call and its outcome: the method, the object handed in (its identity
\* and, in obj, its fields as the call left them), parent_req_name, the
\* object registered under the name when the call began, the exception
\* raised ("None": the call returned) and the value returned.
Call(op, req, obj, parent, existing, raised, value) ==
    [op |-> op, req |-> req, obj |-> obj, parent |-> parent,
     existing |-> existing, raised |-> raised, value |-> value]

\* RequirementSet.__init__
Init ==
    /\ objs = <<>>
    /\ nreq = 0
    /\ requirements = EmptyRequirements
    /\ requirement_aliases = <<>>
    /\ unnamed_requirements = <<>>
    /\ reqs_to_cleanup = <<>>
    /\ dependencies = <<>>
    /\ scanned = <<>>
    /\ successfully_installed = <<>>
    /\ last = Call("__init__", NoReq, <<>>, NoneName, NoReq, "None", <<>>)
    /\ pc = "idle"
    /\ order = <<>>
    /\ ordered_reqs = {}
    /\ values = <<>>
    /\ vi = 1
    /\ stack = <<>>
    /\ nsched = 0
    /\ visits = <<>>
    /\ to_install = <<>>
    /\ idx = 1
    /\ log = <<>>

\* LookUp of the name as spelled only, without project_name.lower().
LookUpExact(R, A, project_name) ==
    IF Contains(R, project_name) THEN GetItem(R, project_name)
    ELSE IF project_name \in DOMAIN A THEN GetItem(R, A[project_name])
    ELSE NoReq

\* RequirementSet.get_requirement on a registry R and an alias table A; the
\* KeyError is NoReq.
LookUp(R, A, project_name) ==
    LET try(name) ==
            IF Contains(R, name) THEN GetItem(R, name)
            ELSE IF name \in DOMAIN A THEN GetItem(R, A[name])
            ELSE NoReq
    IN IF try(project_name) # NoReq THEN try(project_name)
       ELSE try(Lower(project_name))

get_requirement(project_name) ==
    LookUp(requirements, requirement_aliases, project_name)

\* _dependencies is a defaultdict(list): the value read under a key.
DepsOf(D, req) == IF req \in DOMAIN D THEN D[req] ELSE <<>>

\* add_requirement: the wheel check.
UnsupportedWheel(install_req) ==
    /\ install_req.link.present
    /\ install_req.link.is_wheel
    /\ ~install_req.link.supported

\* add_requirement: the settings copied onto the entity.
Configure(install_req, parent_req_name) ==
    [install_req EXCEPT !.use_user_site = use_user_site,
                        !.target_dir = target_dir,
                        !.pycompile = pycompile,
                        !.is_direct = (parent_req_name = NoneName)]

\* add_requirement: the condition of 'Double requirement given'.
DoubleRequirement(install_req, parent_req_name, existing_req) ==
    /\ parent_req_name = NoneName
    /\ existing_req # NoReq
    /\ ~objs[existing_req].constraint
    /\ PyEq(objs[existing_req].extras, install_req.extras)
    /\ ~(objs[existing_req].specifier = install_req.specifier)

\* MeetsConstraint that holds of every later occurrence of a name.
MeetsConstraintAlways(install_req, existing) == TRUE

\* add_requirement: a real requirement meets a registered constraint.
MeetsConstraint(install_req, existing) ==
    ~install_req.constraint /\ existing.constraint

\* LinkConflict that compares no paths: any link of the constraint will do.
LinkConflictIgnoresPath(install_req, existing) ==
    /\ install_req.link.present
    /\ ~existing.link.present

\* add_requirement: the condition of 'Could not satisfy constraints'.
LinkConflict(install_req, existing) ==
    /\ install_req.link.present
    /\ ~(existing.link.present /\ install_req.link.path = existing.link.path)

\* Promote that takes the incoming extras in place of the union.
PromoteReplacesExtras(existing, install_req) ==
    [existing EXCEPT
        !.constraint = FALSE,
        !.extras = PyTuple(sorted(set(install_req.extras)))]

\* add_requirement: the existing object marked for real installation.
Promote(existing, install_req) ==
    [existing EXCEPT
        !.constraint = FALSE,
        !.extras = PyTuple(sorted(set(existing.extras) \union
                                  set(install_req.extras)))]

\* Merge that copies the incoming constraint flag onto the registered object.
MergeCopiesFlag(existing, install_req) ==
    [existing EXCEPT !.constraint = install_req.constraint]

\* add_requirement: what a later occurrence does to the registered object.
Merge(existing, install_req) ==
    IF MeetsConstraint(install_req, existing)
    THEN Promote(existing, install_req)
    ELSE existing

\* AddAlias that records nothing.
AddAliasNever(A, name) == A

\* add_requirement: the alias recorded with a first occurrence.
AddAlias(A, name) ==
    IF Lower(name) # name THEN (Lower(name) :> name) @@ A ELSE A

\* add_requirement: the object the new edge points to.
Canonical(id, existing_req) == IF existing_req = NoReq THEN id ELSE existing_req

\* add_requirement: self._dependencies[parent_req].append(install_req)
AddEdge(D, parent_req, install_req) ==
    (parent_req :> Append(DepsOf(D, parent_req), install_req)) @@ D

\* The state add_requirement leaves and its outcome, as a record: the call
\* handed object `id` with fields install_req0.
add_requirement(id, install_req0, parent_req_name) ==
    LET name == install_req0.name
        unchanged ==
            [objs |-> objs, requirements |-> requirements,
             requirement_aliases |-> requirement_aliases,
             unnamed_requirements |-> unnamed_requirements,
             reqs_to_cleanup |-> reqs_to_cleanup,
             dependencies |-> dependencies,
             obj |-> install_req0, existing |-> NoReq,
             raised |-> "None", value |-> <<>>]
    IN
    IF ~match_markers(install_req0) THEN unchanged
    ELSE IF UnsupportedWheel(install_req0)
    THEN [unchanged EXCEPT !.raised = "InstallationError: not a supported wheel"]
    ELSE
    LET install_req == Configure(install_req0, parent_req_name)
        configured == [unchanged EXCEPT !.obj = install_req]
    IN
    IF name = ""
    THEN [configured EXCEPT
            !.objs = (id :> install_req) @@ objs,
            !.unnamed_requirements = Append(unnamed_requirements, id),
            !.value = <<id>>]
    ELSE
    LET existing_req == get_requirement(name)
        looked == [configured EXCEPT !.existing = existing_req]
    IN
    IF DoubleRequirement(install_req, parent_req_name, existing_req)
    THEN [looked EXCEPT !.raised = "InstallationError: Double requirement given"]
    ELSE
    LET promotes == /\ existing_req # NoReq
                    /\ MeetsConstraint(install_req, objs[existing_req])
    IN
    IF promotes /\ LinkConflict(install_req, objs[existing_req])
    THEN [looked EXCEPT
            !.objs = (id :> install_req) @@ objs,
            !.reqs_to_cleanup = Append(reqs_to_cleanup, id),
            !.raised = "InstallationError: Could not satisfy constraints"]
    ELSE
    LET objs1 ==
            IF existing_req = NoReq THEN (id :> install_req) @@ objs
            ELSE [objs EXCEPT ![existing_req] = Merge(@, install_req)]
        requirements1 ==
            IF existing_req = NoReq THEN SetItem(requirements, name, id)
            ELSE requirements
        aliases1 ==
            IF existing_req = NoReq THEN AddAlias(requirement_aliases, name)
            ELSE requirement_aliases
        result ==
            IF existing_req = NoReq THEN <<id>>
            ELSE IF promotes THEN <<existing_req>>
            ELSE <<>>
        merged == [looked EXCEPT !.objs = objs1,
                                 !.requirements = requirements1,
                                 !.requirement_aliases = aliases1]
        parent_req ==
            IF parent_req_name \in {NoneName, ""} THEN NoReq
            ELSE LookUp(requirements1, aliases1, parent_req_name)
    IN
    IF parent_req_name \in {NoneName, ""}
    THEN [merged EXCEPT !.value = result]
    ELSE IF parent_req = NoReq
    THEN [merged EXCEPT !.raised = "KeyError"]
    ELSE [merged EXCEPT
            !.dependencies = AddEdge(dependencies, parent_req,
                                     Canonical(id, existing_req)),
            !.value = result]

\* The objects a call returned to be scanned, counted.
Scanned(counts, result) ==
    [r \in DOMAIN counts \union Range(result) |->
        (IF r \in DOMAIN counts THEN counts[r] ELSE 0)
        + (IF r \in Range(result) THEN 1 ELSE 0)]

\* One call of add_requirement by the resolver.
AddRequirement(install_req, parent_req_name) ==
    /\ pc = "idle"
    /\ \E id \in {nreq + 1} :
       \E post \in {add_requirement(id, install_req, parent_req_name)} :
          /\ nreq' = id
          /\ objs' = post.objs
          /\ requirements' = post.requirements
          /\ requirement_aliases' = post.requirement_aliases
          /\ unnamed_requirements' = post.unnamed_requirements
          /\ reqs_to_cleanup' = post.reqs_to_cleanup
          /\ dependencies' = post.dependencies
          /\ scanned' = Scanned(scanned, post.value)
          /\ last' = Call("add_requirement", id, <<post.obj>>, parent_req_name,
                          post.existing, post.raised, post.value)
    /\ UNCHANGED <<pc, schedVars, instVars>>

\* ------------------------------------------------------------- _to_install

\* Skips without the test of the constraint flag.
SkipsOnlySatisfied(req, ordered) ==
    \/ objs[req].satisfied_by
    \/ req \in ordered

\* schedule: the requirement is left out (an early return).
Skips(req, ordered) ==
    \/ objs[req].satisfied_by
    \/ req \in ordered
    \/ objs[req].constraint

\* Children of a schedule that does not descend.
ChildrenNone(D, req) == <<>>

\* schedule: the list the for loop of schedule(req) walks.
Children(D, req) == DepsOf(D, req)

\* Visit that does not record the requirement.
VisitForgets(ordered, req) == ordered

\* schedule: ordered_reqs.add(req)
Visit(ordered, req) == ordered \union {req}

\* Emit at the front of the order: order.insert(0, req).
EmitFirst(o, req) == <<req>> \o o

\* Emit behind the head of the order: order.insert(1, req).
EmitSecond(o, req) ==
    IF o = <<>> THEN <<req>> ELSE <<Head(o), req>> \o Tail(o)

\* schedule: order.append(req)
Emit(o, req) == Append(o, req)

\* The call schedule(req) up to its for loop: an early return, or a new
\* frame on the stack `rest` of the calls that are waiting.  Reading
\* self._dependencies[req] enters the key in the defaultdict.
CallSchedule(req, rest) ==
    /\ nsched' = nsched + 1
    /\ IF Skips(req, ordered_reqs)
       THEN /\ stack' = rest
            /\ UNCHANGED <<ordered_reqs, dependencies, visits>>
       ELSE /\ ordered_reqs' = Visit(ordered_reqs, req)
            /\ visits' = Append(visits, req)
            /\ dependencies' = (req :> DepsOf(dependencies, req)) @@ dependencies
            /\ stack' = <<[req |-> req, i |-> 1]>> \o rest

\* The caller asks for the installation order.
ToInstallCall ==
    /\ pc = "idle"
    /\ pc' = "schedule"
    /\ last' = Call("_to_install", NoReq, <<>>, NoneName, NoReq, "None", <<>>)
    /\ order' = <<>>
    /\ ordered_reqs' = {}
    /\ values' = Values(requirements)
    /\ vi' = 1
    /\ stack' = <<>>
    /\ nsched' = 0
    /\ visits' = <<>>
    /\ UNCHANGED <<buildVars, instVars>>

\* for install_req in self.requirements.values(): schedule(install_req)
ScheduleValue ==
    /\ pc = "schedule"
    /\ stack = <<>>
    /\ vi <= Len(values)
    /\ vi' = vi + 1
    /\ CallSchedule(values[vi], <<>>)
    /\ UNCHANGED <<objs, nreq, requirements, requirement_aliases,
                   unnamed_requirements, reqs_to_cleanup, scanned, instVars,
                   last, pc, order, values>>

\* for dep in self._dependencies[req]: schedule(dep)
ScheduleDep ==
    /\ pc = "schedule"
    /\ stack # <<>>
    /\ LET top == Head(stack)
           deps == Children(dependencies, top.req)
       IN /\ top.i <= Len(deps)
          /\ CallSchedule(deps[top.i],
                          <<[top EXCEPT !.i = @ + 1]>> \o Tail(stack))
    /\ UNCHANGED <<objs, nreq, requirements, requirement_aliases,
                   unnamed_requirements, reqs_to_cleanup, scanned, instVars,
                   last, pc, order, values, vi>>

\* The for loop of schedule(req) is over: order.append(req), and return.
ScheduleAppend ==
    /\ pc = "schedule"
    /\ stack # <<>>
    /\ LET top == Head(stack)
       IN /\ top.i > Len(Children(dependencies, top.req))
          /\ order' = Emit(order, top.req)
          /\ stack' = Tail(stack)
    /\ UNCHANGED <<buildVars, instVars, last, pc, ordered_reqs, values, vi,
                   nsched, visits>>

\* return order: to the caller, or to install().
ToInstallReturn ==
    /\ pc = "schedule"
    /\ stack = <<>>
    /\ vi > Len(values)
    /\ IF last.op = "install"
       THEN /\ to_install' = order
            /\ idx' = 1
            /\ pc' = "for"
            /\ last' = last
       ELSE /\ pc' = "done"
            /\ last' = [last EXCEPT !.value = order]
            /\ UNCHANGED <<to_install, idx>>
    /\ UNCHANGED <<buildVars, schedVars, log, successfully_installed>>

\* ----------------------------------------------------------------- install

Logged(call, req) == Append(log, [call |-> call, req |-> req])

\* The caller installs the set: to_install = self._to_install()
InstallCall ==
    /\ pc = "idle"
    /\ pc' = "schedule"
    /\ last' = Call("install", NoReq, <<>>, NoneName, NoReq, "None", <<>>)
    /\ order' = <<>>
    /\ ordered_reqs' = {}
    /\ values' = Values(requirements)
    /\ vi' = 1
    /\ stack' = <<>>
    /\ nsched' = 0
    /\ visits' = <<>>
    /\ UNCHANGED <<buildVars, instVars>>

\* for requirement in to_install: uninstall what it conflicts with.
InstallNext ==
    /\ pc = "for"
    /\ idx <= Len(to_install)
    /\ LET requirement == to_install[idx]
       IN log' = IF objs[requirement].conflicts_with
                 THEN Logged("uninstall", requirement)
                 ELSE log
    /\ pc' = "try"
    /\ UNCHANGED <<buildVars, schedVars, to_install, idx,
                   successfully_installed, last>>

\* requirement.install(...): it raises or returns, and it has or has not
\* set install_succeeded.
InstallTry ==
    /\ pc = "try"
    /\ \E raises \in BOOLEAN, succeeded \in BOOLEAN :
         LET requirement == to_install[idx]
         IN /\ objs' = [objs EXCEPT ![requirement].install_succeeded = succeeded]
            /\ log' = Logged("install", requirement)
            /\ pc' = IF raises THEN "except" ELSE "else"
    /\ UNCHANGED <<nreq, requirements, requirement_aliases,
                   unnamed_requirements, reqs_to_cleanup, dependencies, scanned,
                   schedVars, to_install, idx, successfully_installed, last>>

\* RollsBack with the test of install_succeeded inverted.
RollsBackOnSuccess(requirement) ==
    requirement.conflicts_with /\ requirement.install_succeeded

\* except: the condition of the rollback.
RollsBack(requirement) ==
    requirement.conflicts_with /\ ~requirement.install_succeeded

\* else: the condition of the commit.
Commits(requirement) ==
    requirement.conflicts_with /\ requirement.install_succeeded

\* except: roll the uninstall back, and raise again.
InstallExcept ==
    /\ pc = "except"
    /\ LET requirement == to_install[idx]
       IN log' = IF RollsBack(objs[requirement])
                 THEN Logged("rollback", requirement)
                 ELSE log
    /\ pc' = "done"
    /\ last' = [last EXCEPT !.raised = "install failed"]
    /\ UNCHANGED <<buildVars, schedVars, to_install, idx,
                   successfully_installed>>

\* else: commit the uninstall.
InstallElse ==
    /\ pc = "else"
    /\ LET requirement == to_install[idx]
       IN log' = IF Commits(objs[requirement])
                 THEN Logged("commit", requirement)
                 ELSE log
    /\ pc' = "cleanup"
    /\ UNCHANGED <<buildVars, schedVars, to_install, idx,
                   successfully_installed, last>>

\* requirement.remove_temporary_source(), and on to the next requirement.
InstallRemove ==
    /\ pc = "cleanup"
    /\ log' = Logged("remove_temporary_source", to_install[idx])
    /\ idx' = idx + 1
    /\ pc' = "for"
    /\ UNCHANGED <<buildVars, schedVars, to_install,
                   successfully_installed, last>>

\* The for loop is over: self.successfully_installed = to_install
InstallReturn ==
    /\ pc = "for"
    /\ idx > Len(to_install)
    /\ successfully_installed' = to_install
    /\ pc' = "done"
    /\ UNCHANGED <<buildVars, schedVars, to_install, idx, log, last>>

\* ------------------------------------------------- inputs and specifications

Link(path, is_wheel, supported) ==
    [present |-> TRUE, path |-> path, is_wheel |-> is_wheel,
     supported |-> supported]

\* The requirements handed to add_requirement in the runs that only admit:
\* a project as a real requirement under every specifier and extras, as a
\* constraint with and without extras, under other spellings of its name,
\* and with a link (two paths, and a wheel that is not supported, with
\* markers that match and that do not); a second project; and a requirement
\* without a name.
AdmitRequests ==
    {InstallRequirement("pkg", s, e, FALSE, NoLink, TRUE, FALSE, FALSE) :
        s \in {"==1.0", "==2.0"}, e \in {{}, {"a"}, {"b"}}}
    \union
    {InstallRequirement("pkg", "==1.0", e, TRUE, NoLink, TRUE, FALSE, FALSE) :
        e \in {{}, {"b"}}}
    \union
    {InstallRequirement("Pkg", "==1.0", {}, c, NoLink, TRUE, FALSE, FALSE) :
        c \in BOOLEAN}
    \union
    {InstallRequirement(n, "==1.0", {}, FALSE, NoLink, TRUE, FALSE, FALSE) :
        n \in {"PKG", "dep"}}
    \union
    {InstallRequirement("pkg", "==1.0", {}, FALSE, Link(p, FALSE, FALSE), TRUE,
                        FALSE, FALSE) :
        p \in {"/src/1", "/src/2"}}
    \union
    {InstallRequirement("pkg", "==1.0", {}, TRUE, Link("/src/1", FALSE, FALSE),
                        TRUE, FALSE, FALSE)}
    \union
    {InstallRequirement("pkg", "==1.0", {}, FALSE,
                        Link("/whl", TRUE, FALSE), m, FALSE, FALSE) :
        m \in BOOLEAN}
    \union
    {InstallRequirement("", "", {}, FALSE, Link("/src/1", FALSE, FALSE), TRUE,
                        FALSE, FALSE)}

AdmitParents == {NoneName, "PKG", "dep"}

\* The requirements handed to add_requirement before _to_install: three
\* projects, each a real requirement, a constraint, or already installed.
GraphRequests ==
    {InstallRequirement(n, "==1.0", {}, k = "constraint", NoLink, TRUE,
                        k = "satisfied", FALSE) :
        n \in {"pkg", "dep", "lib"}, k \in {"real", "constraint", "satisfied"}}

GraphParents == {NoneName, "pkg", "dep", "lib"}

\* The requirements handed to add_requirement before _to_install on graphs
\* of real requirements: three projects.
CycleRequests ==
    {InstallRequirement(n, "==1.0", {}, FALSE, NoLink, TRUE, FALSE, FALSE) :
        n \in {"pkg", "dep", "lib"}}

\* The requirements handed to add_requirement before install: three projects,
\* each in conflict with an installed distribution or not, and a requirement
\* without a name.
InstallRequests ==
    {InstallRequirement(n, "==1.0", {}, FALSE, NoLink, TRUE, FALSE, cw) :
        n \in {"pkg", "dep", "lib"}, cw \in BOOLEAN}
    \union
    {InstallRequirement("", "", {}, FALSE, Link("/src/1", FALSE, FALSE), TRUE,
                        FALSE, FALSE)}

InstallParents == {NoneName, "pkg"}

Admit(Requests, Parents) ==
    \E install_req \in Requests, parent_req_name \in Parents :
        AddRequirement(install_req, parent_req_name)

Schedule ==
    \/ ScheduleValue
    \/ ScheduleDep
    \/ ScheduleAppend
    \/ ToInstallReturn

NextAdmit == nreq < MaxAdmitCalls /\ Admit(AdmitRequests, AdmitParents)

NextOrder ==
    \/ nreq < MaxGraphCalls /\ Admit(GraphRequests, GraphParents)
    \/ ToInstallCall
    \/ Schedule

NextCycle ==
    \/ nreq < MaxCycleCalls /\ Admit(CycleRequests, GraphParents)
    \/ ToInstallCall
    \/ Schedule

Next ==
    \/ nreq < MaxInstallCalls /\ Admit(InstallRequests, InstallParents)
    \/ InstallCall
    \/ Schedule
    \/ InstallNext
    \/ InstallTry
    \/ InstallExcept
    \/ InstallElse
    \/ InstallRemove
    \/ InstallReturn

\* The requirement set from its construction to the end of install().
Spec == Init /\ [][Next]_vars

\* The requirement set while the resolver admits requirements.
SpecAdmit == Init /\ [][NextAdmit]_vars

\* The requirement set up to the installation order.
SpecOrder == Init /\ [][NextOrder]_vars

\* The requirement set up to the installation order, real requirements only.
SpecCycle == Init /\ [][NextCycle]_vars

\* ----------------------------------------------------- the dependency graph

\* The recorded edges parent -> child.
Edges ==
    {e \in (DOMAIN dependencies) \X (DOMAIN objs) :
        e[2] \in Range(dependencies[e[1]])}

Successors(E, S) == {e[2] : e \in {x \in E : x[1] \in S}}

\* R and what is reachable from R through members of Mid.
RECURSIVE Closure(_, _, _)
Closure(E, R, Mid) ==
    LET N == R \union Successors(E, R \intersect Mid)
    IN IF N = R THEN R ELSE Closure(E, N, Mid)

\* The entities reachable from p by a path of one or more edges whose
\* intermediate entities are all in Mid.
Reachable(E, p, Mid) == Closure(E, Successors(E, {p}), Mid)

Acyclic == \A n \in DOMAIN objs : n \notin Reachable(Edges, n, DOMAIN objs)

\* The entities schedule leaves out whatever the order of the visits.
Skipped(r) == objs[r].satisfied_by \/ objs[r].constraint

NotSkipped == {r \in DOMAIN objs : ~Skipped(r)}

Before(o, a, b) == \E i, j \in DOMAIN o : o[i] = a /\ o[j] = b /\ i < j

NoDuplicates(o) == \A i, j \in DOMAIN o : o[i] = o[j] => i = j

\* _to_install has returned last.value to its caller.
Returned == pc = "done" /\ last.op = "_to_install"

\* ------------------------------------------------------------------ claims

\* C1: in a graph with no cycle, for every recorded edge parent -> child of
\* which neither end is skipped (satisfied_by set, or still a constraint),
\* the child comes before the parent in the order _to_install returns.
C1_ChildBeforeParent ==
    (Returned /\ Acyclic) =>
        \A e \in Edges :
            (~Skipped(e[1]) /\ ~Skipped(e[2])) => Before(last.value, e[2], e[1])

\* C1's case: an acyclic graph with an edge between two entities that are
\* not skipped, the parent registered before the child, has been ordered.
C1_Witness ==
    /\ Returned
    /\ Acyclic
    /\ \E e \in Edges :
         /\ ~Skipped(e[1]) /\ ~Skipped(e[2])
         /\ Before(values, e[1], e[2])
         /\ Before(last.value, e[2], e[1])

\* C2 as stated: in a graph with no cycle, every entity D that is not
\* skipped and is reachable from an emitted entity P, through whatever
\* entities, comes before P in the order.
C2_Original ==
    (Returned /\ Acyclic) =>
        \A p \in Range(last.value) :
            \A d \in Reachable(Edges, p, DOMAIN objs) :
                ~Skipped(d) => Before(last.value, d, p)

\* C2 as amended: in a graph with no cycle, every entity D that is not
\* skipped and is reachable from an emitted entity P by a path whose
\* intermediate entities are themselves not skipped comes before P in the
\* order.
C2_BehindEmittedPaths ==
    (Returned /\ Acyclic) =>
        \A p \in Range(last.value) :
            \A d \in Reachable(Edges, p, NotSkipped) :
                ~Skipped(d) => Before(last.value, d, p)

\* C2's case: P reaches D only through a second entity that is not skipped,
\* and all three were registered parent first.
C2_Witness ==
    /\ Returned
    /\ Acyclic
    /\ \E p \in Range(last.value) :
       \E d \in Reachable(Edges, p, NotSkipped) \ Successors(Edges, {p}) :
         /\ ~Skipped(d)
         /\ Before(values, p, d)
         /\ Before(last.value, d, p)

Sum(f) ==
    LET RECURSIVE SumOver(_)
        SumOver(S) == IF S = {} THEN 0
                      ELSE LET x == CHOOSE y \in S : TRUE
                           IN f[x] + SumOver(S \ {x})
    IN SumOver(DOMAIN f)

\* The number of recorded edges, counted with their multiplicity.
NumEdges == Sum([p \in DOMAIN dependencies |-> Len(dependencies[p])])

\* C3: _to_install terminates on every graph, cycles and self-edges
\* included, and no entity is in its output twice: schedule is called at
\* most once per registered entity and once per recorded edge, the calls in
\* progress are of distinct entities, a step is always possible until
\* _to_install returns, and the order never holds an entity twice.
C3_TerminatesWithoutDuplicates ==
    /\ NoDuplicates(order)
    /\ pc = "schedule" =>
         /\ nsched <= Len(values) + NumEdges
         /\ Len(stack) <= Len(values)
         /\ ENABLED Schedule
    /\ Returned => NoDuplicates(last.value)

\* C3's case: three entities on a cycle A -> B -> C -> A, none skipped, have
\* been ordered.
C3_Witness ==
    /\ Returned
    /\ \E a, b, c \in Range(last.value) :
         /\ a # b /\ b # c /\ a # c
         /\ {<<a, b>>, <<b, c>>, <<c, a>>} \subseteq Edges

\* C4: the order never holds an entity whose satisfied_by is set, nor one
\* whose constraint flag is true, children of emitted entities included.
C4_SkippedNeverEmitted ==
    /\ \A r \in Range(order) : ~Skipped(r)
    /\ Returned => \A r \in Range(last.value) : ~Skipped(r)

\* C4's case: an emitted entity has a child that is already installed and a
\* child that is still a constraint.
C4_Witness ==
    /\ Returned
    /\ \E p \in Range(last.value) :
         /\ \E c \in Successors(Edges, {p}) : objs[c].satisfied_by
         /\ \E c \in Successors(Edges, {p}) : objs[c].constraint

\* The entities the registry holds.
Registered == Range(Values(requirements))

\* A step is a call of add_requirement that got past the marker filter and
\* the wheel check with a named requirement (last'.obj[1]).
AdmitsNamed ==
    /\ nreq' = nreq + 1
    /\ last'.obj[1].markers_match
    /\ ~(last'.obj[1].link.present /\ last'.obj[1].link.is_wheel
         /\ ~last'.obj[1].link.supported)
    /\ last'.obj[1].name # ""

DoubleRequirementError == "InstallationError: Double requirement given"

\* C5 as stated: a direct requirement whose name a registered entity that
\* is not a constraint holds with equal extras and another specifier fails
\* with 'Double requirement given'; a requirement with a parent never does.
C5_Original ==
    [][AdmitsNamed =>
        LET incoming == last'.obj[1]
            existing_req == get_requirement(incoming.name)
        IN /\ ( /\ last'.parent = NoneName
                /\ existing_req # NoReq
                /\ ~objs[existing_req].constraint
                /\ set(objs[existing_req].extras) = set(incoming.extras)
                /\ objs[existing_req].specifier # incoming.specifier )
              => last'.raised = DoubleRequirementError
           /\ last'.parent # NoneName
              => last'.raised # DoubleRequirementError]_vars

StrictlySorted(q) == \A i, j \in DOMAIN q : i < j => StrLess(q[i], q[j])

\* C6: a requirement that is not a constraint, admitted with a registered
\* parent X under a name registered as a constraint, its link absent or the
\* constraint's own: the call returns [existing entity]; the registry is as
\* it was and holds that entity alone for the name; the entity is no longer
\* a constraint; its extras are the sorted union, without duplicates, of
\* both extras; and the edge added to X's dependencies points to the
\* existing entity, not to the object handed in.
C6_PromotionKeepsOneEntity ==
    [][AdmitsNamed =>
        LET incoming == last'.obj[1]
            existing_req == get_requirement(incoming.name)
            X == IF last'.parent \in {NoneName, ""} THEN NoReq
                 ELSE get_requirement(last'.parent)
        IN ( /\ ~incoming.constraint
             /\ existing_req # NoReq
             /\ objs[existing_req].constraint
             /\ incoming.link.present =>
                  /\ objs[existing_req].link.present
                  /\ objs[existing_req].link.path = incoming.link.path
             /\ X # NoReq )
           =>
           /\ last'.raised = "None"
           /\ last'.value = <<existing_req>>
           /\ requirements' = requirements
           /\ {r \in Registered' :
                 Lower(objs'[r].name) = Lower(incoming.name)} = {existing_req}
           /\ ~objs'[existing_req].constraint
           /\ StrictlySorted(objs'[existing_req].extras.elems)
           /\ set(objs'[existing_req].extras) =
                 set(objs[existing_req].extras) \union set(incoming.extras)
           /\ dependencies'[X] = Append(DepsOf(dependencies, X), existing_req)
           /\ \A p \in DOMAIN dependencies' :
                 last'.req \notin Range(dependencies'[p])]_vars

\* C6's case: a constraint with extras b was promoted by a requirement with
\* extras a that came from another registered entity.
C6_Witness ==
    /\ last.op = "add_requirement"
    /\ last.raised = "None"
    /\ last.parent # NoneName
    /\ last.existing # NoReq
    /\ last.value = <<last.existing>>
    /\ set(last.obj[1].extras) = {"a"}
    /\ objs[last.existing].extras.elems = <<"a", "b">>
    /\ get_requirement(last.parent) # last.existing
    /\ last.existing \in Range(dependencies[get_requirement(last.parent)])

\* C7: once the constraint flag of a registered entity is false, no call of
\* add_requirement makes it true again.
C7_PromotionIsMonotonic ==
    [][\A r \in Registered :
          ~objs[r].constraint =>
              r \in Registered' /\ ~objs'[r].constraint]_vars

\* C7's case: a promoted entity has met a later constraint of its name.
C7_Witness ==
    /\ last.op = "add_requirement"
    /\ last.raised = "None"
    /\ last.existing # NoReq
    /\ last.obj[1].constraint
    /\ objs[last.existing].extras.kind = "tuple"
    /\ ~objs[last.existing].constraint

InLog(call, req) == \E i \in DOMAIN log : log[i] = [call |-> call, req |-> req]

\* C8: when the install operation of an entity with conflicts_with, its old
\* installation uninstalled, raises without install_succeeded, rollback is
\* called on the uninstall, install() ends with the failure, and nothing is
\* called on an entity later in the order; nothing happens after install()
\* has ended.
C8_FailureRollsBackAndAborts ==
    [][ /\ pc # "done"
        /\ pc = "except" =>
            LET r == to_install[idx]
                n == Len(log)
            IN /\ pc' = "done"
               /\ last'.op = "install"
               /\ last'.raised # "None"
               /\ (objs[r].conflicts_with /\ ~objs[r].install_succeeded) =>
                    /\ n >= 2
                    /\ log[n - 1] = [call |-> "uninstall", req |-> r]
                    /\ log[n] = [call |-> "install", req |-> r]
                    /\ log' = Append(log, [call |-> "rollback", req |-> r])
               /\ \A j \in (idx + 1)..Len(to_install) :
                    \A i \in DOMAIN log' : log'[i].req # to_install[j] ]_vars

\* C8's case: install() has ended with the failure of a conflicting entity
\* that had not succeeded, rolled back, and an entity was still to come.
C8_Witness ==
    /\ pc = "done"
    /\ last.op = "install"
    /\ last.raised # "None"
    /\ idx < Len(to_install)
    /\ objs[to_install[idx]].conflicts_with
    /\ ~objs[to_install[idx]].install_succeeded
    /\ log[Len(log)] = [call |-> "rollback", req |-> to_install[idx]]

\* C9 as stated: every entity with conflicts_with whose install operation
\* completed without failure has had its uninstall committed and its
\* temporary source removed before the next entity is processed.
C9_Original ==
    (last.op = "install" /\ pc \in {"for", "try", "except", "else", "cleanup", "done"})
        => \A i \in 1..(idx - 1) :
              objs[to_install[i]].conflicts_with =>
                  /\ InLog("commit", to_install[i])
                  /\ InLog("remove_temporary_source", to_install[i])

\* The spellings of the project names.
Spellings(name) ==
    {v \in {"pkg", "Pkg", "PKG", "dep", "Dep", "DEP"} : Lower(v) = Lower(name)}

Min(S) == CHOOSE x \in S : \A y \in S : x <= y

\* C10: get_requirement of every spelling of a registered name returns the
\* entity first registered under a spelling of that name, and no other
\* entity is registered under one; after a call that admitted a named
\* entity, that is the entity itself or the one it was merged into.
C10_LookupIgnoresCase ==
    /\ \A r \in Registered :
         \A v \in Spellings(objs[r].name) :
            get_requirement(v) =
                Min({q \in Registered : Lower(objs[q].name) = Lower(objs[r].name)})
    /\ \A r, q \in Registered :
         Lower(objs[r].name) = Lower(objs[q].name) => r = q
    /\ ( /\ last.op = "add_requirement"
         /\ last.raised = "None"
         /\ last.obj[1].markers_match
         /\ last.obj[1].name # "" )
       => \A v \in Spellings(last.obj[1].name) :
             get_requirement(v) =
                 IF last.existing = NoReq THEN last.req ELSE last.existing

\* C10's case: PKG was admitted after Pkg and merged into it.
C10_Witness ==
    /\ last.op = "add_requirement"
    /\ last.raised = "None"
    /\ last.obj[1].name = "PKG"
    /\ last.existing # NoReq
    /\ objs[last.existing].name = "Pkg"
    /\ get_requirement("pkg") = last.existing

\* C11: after any calls of add_requirement, under names in any mix of cases
\* and in any order, every key of requirement_aliases maps to a key of
\* requirements, and no two keys of requirements are equal after
\* lower-casing.
C11_AliasesPointIntoRegistry ==
    /\ \A alias \in DOMAIN requirement_aliases :
          Contains(requirements, requirement_aliases[alias])
    /\ \A i, j \in DOMAIN requirements.keys :
          Lower(requirements.keys[i]) = Lower(requirements.keys[j]) => i = j

\* C11's case: a name registered with an alias has since been admitted
\* under another spelling, a second project being registered as well.
C11_Witness ==
    /\ DOMAIN requirement_aliases # {}
    /\ Len(requirements.keys) = 2
    /\ last.op = "add_requirement"
    /\ last.raised = "None"
    /\ last.existing # NoReq
    /\ last.obj[1].name # objs[last.existing].name
    /\ Lower(objs[last.existing].name) \in DOMAIN requirement_aliases

\* install() is between two entities of its for loop, or has ended.
BetweenEntities == last.op = "install" /\ pc \in {"for", "done"}

\* C12 as stated: every call of an entity's install operation by install()
\* is followed, whether the operation returned or raised, by a call of
\* remove_temporary_source on that entity before install() goes on or ends.
C12_Original ==
    BetweenEntities =>
        \A i \in DOMAIN log :
            log[i].call = "install" =>
                \E j \in DOMAIN log :
                    /\ j > i
                    /\ log[j] = [call |-> "remove_temporary_source",
                                 req |-> log[i].req]

\* C13 as stated: when install() has ended, by returning or by the failure
\* of the entity at position idx, successfully_installed is the list of the
\* entities whose install operation returned, in the order processed: the
\* idx - 1 entities before the failure, or all of them.
C13_Original ==
    (last.op = "install" /\ pc = "done") =>
        successfully_installed = SubSeq(to_install, 1, idx - 1)

\* C14 as stated: an entity admitted without a name, its satisfied_by unset
\* and not a constraint, is in the order install() got from _to_install,
\* and its install operation has been called when install() returns.
C14_Original ==
    (last.op = "install" /\ pc \notin {"idle", "schedule"}) =>
        \A u \in Range(unnamed_requirements) :
            ~Skipped(u) =>
                /\ u \in Range(to_install)
                /\ (pc = "done" /\ last.raised = "None") => InLog("install", u)

\* C15 as stated: a call of add_requirement ends in 'Double requirement
\* given' only when the requirement handed in is direct and not a
\* constraint, and the entity registered under its name is direct (admitted
\* without a parent) and not a constraint, with another specifier.
C15_Original ==
    [][(AdmitsNamed /\ last'.raised = DoubleRequirementError) =>
        LET incoming == last'.obj[1]
            existing_req == get_requirement(incoming.name)
        IN /\ last'.parent = NoneName
           /\ ~incoming.constraint
           /\ existing_req # NoReq
           /\ objs[existing_req].is_direct
           /\ ~objs[existing_req].constraint
           /\ objs[existing_req].specifier # incoming.specifier]_vars

ConstraintConflictError == "InstallationError: Could not satisfy constraints"

\* C16: a requirement that is not a constraint is admitted under a name
\* registered as a constraint.  If it carries a link and the constraint has
\* none or has another path, the call fails with 'Could not satisfy
\* constraints', the object handed in is appended to reqs_to_cleanup, and
\* the registered entity is as it was (still a constraint, its extras
\* unchanged) and no edge is added.  If it carries no link or the same
\* path, the entity is promoted: it is no longer a constraint, its extras
\* are the union, nothing is marked for cleanup, and the call, its parent
\* being absent or registered, returns the entity.
C16_LinkMustMatchConstraint ==
    [][AdmitsNamed =>
        LET incoming == last'.obj[1]
            existing_req == get_requirement(incoming.name)
            X == IF last'.parent \in {NoneName, ""} THEN NoReq
                 ELSE get_requirement(last'.parent)
        IN ( /\ ~incoming.constraint
             /\ existing_req # NoReq
             /\ objs[existing_req].constraint )
           =>
           IF /\ incoming.link.present
              /\ ~( /\ objs[existing_req].link.present
                    /\ objs[existing_req].link.path = incoming.link.path )
           THEN /\ last'.raised = ConstraintConflictError
                /\ reqs_to_cleanup' = Append(reqs_to_cleanup, last'.req)
                /\ objs'[existing_req] = objs[existing_req]
                /\ objs'[existing_req].constraint
                /\ dependencies' = dependencies
                /\ requirements' = requirements
           ELSE /\ last'.raised # ConstraintConflictError
                /\ reqs_to_cleanup' = reqs_to_cleanup
                /\ ~objs'[existing_req].constraint
                /\ set(objs'[existing_req].extras) =
                      set(objs[existing_req].extras) \union set(incoming.extras)
                /\ (last'.parent = NoneName \/ X # NoReq) =>
                      /\ last'.raised = "None"
                      /\ last'.value = <<existing_req>>]_vars

\* C16's case: a requirement with a link, sent by a registered parent, met a
\* constraint with a link to another path and was refused.
C16_Witness ==
    /\ last.op = "add_requirement"
    /\ last.raised = ConstraintConflictError
    /\ last.parent # NoneName
    /\ get_requirement(last.parent) \notin {NoReq, last.existing}
    /\ last.existing # NoReq
    /\ objs[last.existing].constraint
    /\ objs[last.existing].link.present
    /\ last.obj[1].link.path # objs[last.existing].link.path
    /\ last.req \in Range(reqs_to_cleanup)

\* The entities of C lie, in some arrangement, on a cycle of recorded edges
\* (a single entity: on a self-edge).
IsCycle(C) ==
    LET n == Cardinality(C)
    IN \E f \in [1..n -> C] :
          /\ \A i, j \in 1..n : f[i] = f[j] => i = j
          /\ \A i \in 1..n : <<f[i], f[(i % n) + 1]>> \in Edges

\* The cycles, as sets of members, none of whose members is skipped.
Cycles == {C \in SUBSET NotSkipped : C # {} /\ IsCycle(C)}

\* The member of C that schedule took into ordered_reqs first.
FirstVisited(C) == CHOOSE m \in C : \A x \in C \ {m} : Before(visits, m, x)

\* C17 as stated: of the members of a cycle none of which is skipped, the
\* one the traversal visits first comes before the others in the order.
C17_Original ==
    Returned =>
        \A C \in Cycles :
            \A x \in C \ {FirstVisited(C)} :
                Before(last.value, FirstVisited(C), x)

\* C17 as amended: of the members of a cycle none of which is skipped, the
\* one the traversal visits first comes after all the others in the order;
\* the edge that leads back to it is the one left unhonoured.
C17_FirstVisitedIsEmittedLast ==
    Returned =>
        \A C \in Cycles :
            /\ C \subseteq Range(visits)
            /\ \A x \in C \ {FirstVisited(C)} :
                  Before(last.value, x, FirstVisited(C))

\* C17's case: a cycle of three has been ordered, entered at the entity
\* registered first, which is the last of the order.
C17_Witness ==
    /\ Returned
    /\ \E C \in Cycles :
         /\ Cardinality(C) = 3
         /\ FirstVisited(C) = values[1]
         /\ last.value[Len(last.value)] = FirstVisited(C)

\* C18 as stated: a call of add_requirement that ends in an error leaves
\* the requirements mapping, the alias table, the recorded edges, and the
\* constraint flag and extras of every registered entity as they were.
C18_Original ==
    [][(nreq' = nreq + 1 /\ last'.raised # "None") =>
        /\ requirements' = requirements
        /\ requirement_aliases' = requirement_aliases
        /\ dependencies' = dependencies
        /\ \A r \in Registered :
              /\ objs'[r].constraint = objs[r].constraint
              /\ objs'[r].extras = objs[r].extras]_vars

\* How often add_requirement has returned entity r to be scanned.
TimesScanned(counts, r) == IF r \in DOMAIN counts THEN counts[r] ELSE 0

\* C19: over any calls of add_requirement, a registered entity is returned
\* to be scanned at most twice, and a second time only by a call that
\* promotes it from constraint to real, of which there is at most one; a
\* call whose markers do not match returns []; a call that returns under a
\* registered name returns [] unless it promotes the entity, and then
\* returns the entity; a call that registers a name returns the object
\* handed in.
C19_ScannedAtMostTwice ==
    [][nreq' = nreq + 1 =>
        LET incoming == last'.obj[1]
            existing_req == get_requirement(incoming.name)
            promotes == ~incoming.constraint /\ objs[existing_req].constraint
        IN /\ \A r \in Registered' : TimesScanned(scanned', r) <= 2
           /\ \A r \in Registered :
                TimesScanned(scanned', r) > TimesScanned(scanned, r) =>
                    /\ TimesScanned(scanned, r) <= 1
                    /\ objs[r].constraint
                    /\ ~objs'[r].constraint
           /\ ~incoming.markers_match =>
                last'.raised = "None" /\ last'.value = <<>>
           /\ (AdmitsNamed /\ last'.raised = "None") =>
                last'.value = IF existing_req = NoReq THEN <<last'.req>>
                              ELSE IF promotes THEN <<existing_req>>
                              ELSE <<>>]_vars

\* C19's case: an entity returned when it was registered as a constraint
\* and again when it was promoted has met its name once more, and the call
\* returned nothing to scan.
C19_Witness ==
    /\ last.op = "add_requirement"
    /\ last.raised = "None"
    /\ last.obj[1].markers_match
    /\ ~last.obj[1].constraint
    /\ last.existing # NoReq
    /\ last.value = <<>>
    /\ TimesScanned(scanned, last.existing) = 2

\* The entities install() is done with: those before position idx, and the
\* one at idx once its try statement is over.
Settled ==
    {to_install[i] : i \in 1..(idx - 1)} \union
    (IF pc = "cleanup" \/ (pc = "done" /\ last.raised # "None")
     THEN {to_install[idx]} ELSE {})

\* C20 as stated: for every entity whose conflicting installation install()
\* uninstalled, exactly one of commit and rollback has been called on that
\* uninstall when install() goes on to the next entity or ends, whether the
\* install operation raised or returned and whatever install_succeeded is.
C20_Original ==
    last.op = "install" =>
        \A r \in Settled :
            InLog("uninstall", r) => InLog("commit", r) # InLog("rollback", r)
====
